---------------------------- MODULE Spec2Model ----------------------------
(***************************************************************************)
(* Kakera (src/src/App.tsx, the current App component, lines 1381-2551):   *)
(* the view / session / entry lifecycle controller of the single-page app. *)
(*                                                                         *)
(* React state is modelled variable by variable.  Every async handler is   *)
(* split where the code awaits: the synchronous prefix issues a request    *)
(* (a record put into net, carrying the values the closure captured), the  *)
(* store processes it (StoreOk / StoreFail), and the continuation runs     *)
(* when the response is delivered.  Requests are processed and delivered   *)
(* in any order.                                                           *)
(*                                                                         *)
(* Spec is the whole component.  The properties are checked under the      *)
(* specifications at the end of the module, each of which takes the        *)
(* handlers of one part of the component: SpecNav, SpecProject, SpecEdit,  *)
(* SpecForm, SpecHandover, SpecOutage, SpecSave, SpecPublic, SpecVisitor,  *)
(* SpecViews, and SpecDelete, which adds the fairness the liveness         *)
(* properties need.                                                        *)
(***************************************************************************)
EXTENDS Integers, Sequences, FiniteSets, Bags, TLC

(***************************************************************************)
(* Bounds of the model.                                                    *)
(***************************************************************************)
MaxInflight == 2      \* requests in flight at the same time
MaxUuid == 2          \* crypto.randomUUID() calls
MaxProjectId == 3     \* project ids the store hands out
MaxEntryId == 3       \* entry ids the store hands out
MaxClock == 4         \* Date.now() readings
MaxBlob == 2          \* URL.createObjectURL() calls

(***************************************************************************)
(* Values.                                                                 *)
(***************************************************************************)
NoUser == "none"                       \* session?.user ?? null
Users == {"u1", "u2"}
NullShare == 0                         \* share_id absent (share_id?: string)
NoParam == -1                          \* URL without a share parameter
EmptyParam == 0                        \* URL with "share=" and no value
SeedShare == 101                       \* share_id of the seeded project
BadShare == 100                        \* a token no project carries

None == <<>>                           \* null for Project | null, ProgressEntry | null
Some(x) == <<x>>

Names == {"n1", "n2"}                  \* project names typed into the form
Descs == {"", "d1"}
NoteTexts == {"", " ", "t1"}           \* "", whitespace only, text
CATEGORIES == {"idea", "draft"}
COLORS == {"", "#6366f1"}
FileTypes == {"image/png", "audio/mpeg"}
NoFile == "none"
NoType == "none"                       \* uploadType null

NoUrl == [scheme |-> "none", dir |-> "none", n |-> 0]
BlobUrl(n) == [scheme |-> "blob", dir |-> "none", n |-> n]
\* `${uploadType}s/${fileName}`
FilePath(uploadType_, uuid) == [dir |-> uploadType_ \o "s", n |-> uuid]
PublicUrl(path) == [scheme |-> "https", dir |-> path.dir, n |-> path.n]

\* notes.trim()
Trim(s) == IF s = " " THEN "" ELSE s

\* selectedFile.type.startsWith('image/') ? 'image' : 'audio'
KindOfFile(f) == IF f = "image/png" THEN "image" ELSE "audio"

\* default colour the category buttons set when no colour is chosen yet
DefaultColor(cat) == IF cat = "idea" THEN "#f59e0b" ELSE "#0ea5e9"

\* { ...a, ...b }
Spread(a, b) == [f \in (DOMAIN a) \cup (DOMAIN b) |-> IF f \in DOMAIN b THEN b[f] ELSE a[f]]

VARIABLES
  \* ---- React state of App
  user, view, projects, selectedProject, entries, allEntries, publicEntries,
  loading, publicLoading, uploading,
  showUpload, editingEntry, editingProject, showCreateProject,
  newProjectName, newProjectDesc,
  uploadType, isPublic, selectedCategory, selectedColor, filterCategory,
  notes, file, previewUrl,
  \* ---- browser
  url,          \* the share parameter of window.location.search
  clipboard,    \* navigator.clipboard
  blobs,        \* object URLs created and not revoked
  alertMsg,     \* the alert() the last step showed, "none" if it showed none
  \* ---- collaborators
  authSession,  \* the identity provider's session
  dbProjects, dbEntries, storage,
  net,          \* requests in flight
  initPc,       \* position of init()
  nextUuid, nextProjectId, nextEntryId, now, nextBlob

listVars == <<projects, entries, allEntries, publicEntries>>
navVars == <<view, selectedProject, filterCategory>>
flagVars == <<loading, publicLoading, uploading>>
projFormVars == <<showCreateProject, editingProject, newProjectName, newProjectDesc>>
formVars == <<showUpload, editingEntry, uploadType, isPublic, selectedCategory,
              selectedColor, notes, file, previewUrl>>
browserVars == <<url, clipboard, blobs>>
dbVars == <<dbProjects, dbEntries, storage, nextProjectId, nextEntryId>>
ctrVars == <<nextUuid, now, nextBlob>>

vars == <<user, listVars, navVars, flagVars, projFormVars, formVars, browserVars,
          alertMsg, authSession, dbVars, net, initPc, ctrVars>>

(***************************************************************************)
(* The relational store and the object storage, as the calls use them.     *)
(***************************************************************************)
SeedProject == [id |-> 1, name |-> "n1", description |-> "", created_at |-> 1,
                user_id |-> "u1", share_id |-> SeedShare]
\* a project created before sharing existed: no share_id
LegacyProject == [id |-> 2, name |-> "n2", description |-> "d1", created_at |-> 2,
                  user_id |-> "u1", share_id |-> NullShare]
SeedText == [id |-> 1, type |-> "text", url |-> NoUrl, notes |-> "t1", timestamp |-> 1,
             project_id |-> 1, user_id |-> "u1", is_public |-> TRUE,
             category |-> "idea", color |-> ""]
SeedImage == [id |-> 2, type |-> "image", url |-> PublicUrl(FilePath("image", 100)),
              notes |-> "", timestamp |-> 2, project_id |-> 1, user_id |-> "u1",
              is_public |-> FALSE, category |-> "", color |-> ""]

\* .order('created_at', { ascending: false })
RECURSIVE OrderByCreatedDesc(_)
OrderByCreatedDesc(S) ==
  IF S = {} THEN <<>>
  ELSE LET p == CHOOSE x \in S : \A y \in S : y.created_at <= x.created_at
       IN  <<p>> \o OrderByCreatedDesc(S \ {p})

\* .order('timestamp', { ascending: false })
RECURSIVE OrderByTimestampDesc(_)
OrderByTimestampDesc(S) ==
  IF S = {} THEN <<>>
  ELSE LET e == CHOOSE x \in S : \A y \in S :
                   \/ y.timestamp < x.timestamp
                   \/ (y.timestamp = x.timestamp /\ y.id >= x.id)
       IN  <<e>> \o OrderByTimestampDesc(S \ {e})

\* rows in the order the store holds them (no .order())
RECURSIVE OrderById(_)
OrderById(S) ==
  IF S = {} THEN <<>>
  ELSE LET e == CHOOSE x \in S : \A y \in S : x.id <= y.id
       IN  <<e>> \o OrderById(S \ {e})

SelectProjectsOf(uid) == OrderByCreatedDesc({p \in dbProjects : p.user_id = uid})
SelectEntriesOf(pid) == OrderByTimestampDesc({e \in dbEntries : e.project_id = pid})
\* a public feed select without .eq('is_public', true)
SelectPublicEntries_All == OrderByTimestampDesc(dbEntries)
SelectPublicEntries == OrderByTimestampDesc({e \in dbEntries : e.is_public})
SelectTimestampsOf(uid) ==
  LET rows == OrderById({e \in dbEntries : e.user_id = uid})
  IN  [i \in 1..Len(rows) |-> [timestamp |-> rows[i].timestamp]]
SelectByShare(token) == {p \in dbProjects : p.share_id = token}

\* .update(newEntry): the row after the update; user_id: undefined is not sent
StoredEntry(e, row) ==
  Spread(e, IF row.user_id = NoUser THEN [row EXCEPT !.user_id = e.user_id] ELSE row)

\* a request as issued: not processed yet, no result
Request(fields) == Spread(fields, [phase |-> "sent", err |-> FALSE, data |-> <<>>])
Done(m, err_, data_) == [m EXCEPT !.phase = "done", !.err = err_, !.data = data_]

Inflight == BagCardinality(net)
Send(m) == net' = net (+) SetToBag({m})
Sent == {m \in BagToSet(net) : m.phase = "sent"}
Arrived(op_) == {m \in BagToSet(net) : m.phase = "done" /\ m.op = op_}
Take(m) == net (-) SetToBag({m})

\* the calls that write to the projects and progress_entries tables
DbWrites == {"insertProject", "updateProject", "deleteProject", "updateShare",
             "insertEntry", "updateEntry", "deleteEntry"}

\* whether the store accepts the request: .single() needs exactly one row, an
\* insert needs an owner, a free id and (for an entry) its project
Accepts(m) ==
  CASE m.op = "loadShared" -> Cardinality(SelectByShare(m.shareId)) = 1
    [] m.op = "insertProject" -> m.row.user_id # NoUser /\ nextProjectId <= MaxProjectId
    [] m.op = "insertEntry" -> /\ m.row.user_id # NoUser
                               /\ nextEntryId <= MaxEntryId
                               /\ \E p \in dbProjects : p.id = m.row.project_id
    [] m.op = "storageUpload" -> m.path \notin storage
    [] OTHER -> TRUE

\* the rows the request returns
ResultOf(m) ==
  CASE m.op = "loadShared" -> OrderById(SelectByShare(m.shareId))
    [] m.op = "fetchProjects" -> SelectProjectsOf(m.cu)
    [] m.op = "fetchAllEntries" -> SelectTimestampsOf(m.cu)
    [] m.op = "fetchEntries" -> SelectEntriesOf(m.projectId)
    [] m.op = "fetchPublic" -> SelectPublicEntries
    [] m.op = "insertProject" ->
         <<[id |-> nextProjectId, name |-> m.row.name, description |-> m.row.description,
            created_at |-> nextProjectId, user_id |-> m.row.user_id]>>
    [] m.op = "updateProject" ->
         OrderById({[p EXCEPT !.name = m.name, !.description = m.description] :
                      p \in {q \in dbProjects : q.id = m.id}})
    [] m.op = "insertEntry" -> <<Spread(m.row, [id |-> nextEntryId])>>
    [] m.op = "updateEntry" ->
         OrderById({StoredEntry(e, m.row) : e \in {x \in dbEntries : x.id = m.id}})
    [] OTHER -> <<>>

ProjectsAfter(m) ==
  CASE m.op = "insertProject" ->
         dbProjects \cup {Spread(ResultOf(m)[1], [share_id |-> m.row.share_id])}
    [] m.op = "updateProject" ->
         {IF p.id = m.id THEN [p EXCEPT !.name = m.name, !.description = m.description]
          ELSE p : p \in dbProjects}
    [] m.op = "updateShare" ->
         {IF p.id = m.projectId THEN [p EXCEPT !.share_id = m.newShareId] ELSE p :
            p \in dbProjects}
    [] m.op = "deleteProject" -> {p \in dbProjects : p.id # m.id}
    [] OTHER -> dbProjects

EntriesAfter(m) ==
  CASE m.op = "insertEntry" -> dbEntries \cup {ResultOf(m)[1]}
    [] m.op = "updateEntry" ->
         {IF e.id = m.id THEN StoredEntry(e, m.row) ELSE e : e \in dbEntries}
    [] m.op = "deleteEntry" -> {e \in dbEntries : e.id # m.id}
    \* the store cascades a project's deletion to its entries
    [] m.op = "deleteProject" -> {e \in dbEntries : e.project_id # m.id}
    [] OTHER -> dbEntries

\* the store carries request m out and answers with the rows
StoreOkOf(m) ==
    /\ Accepts(m)
    /\ net' = Take(m) (+) SetToBag({Done(m, FALSE, ResultOf(m))})
    /\ dbProjects' = ProjectsAfter(m)
    /\ dbEntries' = EntriesAfter(m)
    /\ storage' = IF m.op = "storageUpload" THEN storage \cup {m.path} ELSE storage
    /\ nextProjectId' = IF m.op = "insertProject" THEN nextProjectId + 1 ELSE nextProjectId
    /\ nextEntryId' = IF m.op = "insertEntry" THEN nextEntryId + 1 ELSE nextEntryId
    /\ alertMsg' = "none"
    /\ UNCHANGED <<user, listVars, navVars, flagVars, projFormVars, formVars,
                   browserVars, authSession, initPc, ctrVars>>

StoreOk == \E m \in Sent : StoreOkOf(m)

\* the database refuses every write; selects and file uploads are served
StoreServes == \E m \in Sent : m.op \notin DbWrites /\ StoreOkOf(m)

\* request m fails (network, policy, constraint): nothing is stored
StoreFailOf(m) ==
    /\ net' = Take(m) (+) SetToBag({Done(m, TRUE, <<>>)})
    /\ alertMsg' = "none"
    /\ UNCHANGED <<user, listVars, navVars, flagVars, projFormVars, formVars,
                   browserVars, authSession, dbVars, initPc, ctrVars>>

StoreFail == \E m \in Sent : StoreFailOf(m)

\* the database refuses a write; no select fails
StoreRefuses == \E m \in Sent : m.op \in DbWrites /\ StoreFailOf(m)

(***************************************************************************)
(* What the component renders, as far as it enables a control.             *)
(***************************************************************************)
\* a check that takes any share parameter, also an empty one, for a token
IsSharedView_AnyParam == url # NoParam
\* !!(new URLSearchParams(window.location.search).get('share'))
IsSharedView == url # NoParam /\ url # EmptyParam
\* window.location.search.includes('share=')
HasShareParam == url # NoParam
\* if (!user && !isSharedView) return <AuthView/>
AuthGate == user = NoUser /\ ~IsSharedView
UploadModalShown == ~AuthGate /\ showUpload /\ (selectedProject # None \/ editingEntry # None)
ProjectModalShown == ~AuthGate /\ showCreateProject
\* the modals are full-screen overlays (fixed inset-0 z-50): the view under an
\* open modal takes no clicks
MainClickable == ~AuthGate /\ ~UploadModalShown /\ ~ProjectModalShown
ProjectViewShown == view = "project" /\ selectedProject # None
\* entries.filter(entry => filterCategory === 'all' || entry.category === filterCategory)
Visible(e) == filterCategory = "all" \/ e.category = filterCategory
EntryListShown == ProjectViewShown /\ ~loading /\ entries # <<>>

NoAlert == alertMsg' = "none"

(***************************************************************************)
(* Session Resolver: init() and the onAuthStateChange subscription.        *)
(***************************************************************************)
\* init() after `await supabase.auth.getSession()`
InitSession ==
  /\ initPc = "getSession"
  /\ initPc' = "done"
  /\ user' = authSession
  /\ IF IsSharedView
       THEN /\ Send(Request([op |-> "loadShared", shareId |-> url, cu |-> authSession]))
            /\ loading' = loading
       ELSE IF authSession # NoUser
         THEN /\ Send(Request([op |-> "fetchProjects", cu |-> authSession, then |-> "init"]))
              /\ loading' = TRUE
         ELSE /\ net' = net
              /\ loading' = FALSE
  /\ NoAlert
  /\ UNCHANGED <<listVars, navVars, publicLoading, uploading, projFormVars, formVars,
                 browserVars, authSession, dbVars, ctrVars>>

\* onAuthStateChange callback, session with a user: fetchProjectsWithUser(currentUser)
AuthSignedIn(u) ==
  /\ authSession \in {NoUser, u}
  /\ Inflight < MaxInflight
  /\ authSession' = u
  /\ user' = u
  /\ loading' = TRUE
  /\ Send(Request([op |-> "fetchProjects", cu |-> u, then |-> "none"]))
  /\ NoAlert
  /\ UNCHANGED <<listVars, navVars, publicLoading, uploading, projFormVars, formVars,
                 browserVars, dbVars, initPc, ctrVars>>

\* a sign-out that forgets the shared view
SignOutClears_Always == TRUE
\* if (!params.get('share')) { setProjects([]); setView('home'); }
SignOutClears == ~IsSharedView

\* onAuthStateChange callback, no session
AuthSignedOut ==
  /\ authSession' = NoUser
  /\ user' = NoUser
  /\ projects' = IF SignOutClears THEN <<>> ELSE projects
  /\ view' = IF SignOutClears THEN "home" ELSE view
  /\ NoAlert
  /\ UNCHANGED <<entries, allEntries, publicEntries, selectedProject, filterCategory,
                 flagVars, projFormVars, formVars, browserVars, dbVars, net, initPc,
                 ctrVars>>

\* handleLoadSharedProject after the select by share_id; then init: setLoading(false)
LoadSharedRespOf(m) ==
    /\ IF m.err \/ m.data = <<>>
         THEN /\ alertMsg' = "invalidShareLink"
              /\ url' = NoParam
              /\ net' = Take(m)
              /\ loading' = FALSE
              /\ selectedProject' = selectedProject
         ELSE /\ alertMsg' = "none"
              /\ url' = url
              /\ selectedProject' = Some(m.data[1])
              /\ net' = Take(m) (+) SetToBag({Request([op |-> "fetchEntries",
                                         projectId |-> m.data[1].id, then |-> "shared"])})
              /\ loading' = loading
   
    /\ UNCHANGED <<user, listVars, view, filterCategory, publicLoading, uploading,
                   projFormVars, formVars, clipboard, blobs, authSession, dbVars, initPc,
                   ctrVars>>

LoadSharedResp == \E m \in Arrived("loadShared") : LoadSharedRespOf(m)

\* a fetchProjectsWithUser that returns on the error, before setLoading(false)
FetchProjectsRespOf_StuckLoading(m) ==
    /\ projects' = IF m.err THEN projects ELSE m.data
    /\ net' = IF m.err THEN Take(m)
              ELSE Take(m) (+) SetToBag({Request([op |-> "fetchAllEntries", cu |-> m.cu])})
    /\ loading' = IF m.err THEN loading ELSE FALSE
    /\ NoAlert
    /\ UNCHANGED <<user, entries, allEntries, publicEntries, navVars, publicLoading,
                   uploading, projFormVars, formVars, browserVars, authSession, dbVars,
                   initPc, ctrVars>>

\* fetchProjectsWithUser after the select: setProjects, fetchAllEntries, setLoading(false)
FetchProjectsRespOf(m) ==
    /\ projects' = IF m.err THEN projects ELSE m.data
    /\ net' = IF m.err THEN Take(m)
              ELSE Take(m) (+) SetToBag({Request([op |-> "fetchAllEntries", cu |-> m.cu])})
    /\ loading' = FALSE
    /\ NoAlert
    /\ UNCHANGED <<user, entries, allEntries, publicEntries, navVars, publicLoading,
                   uploading, projFormVars, formVars, browserVars, authSession, dbVars,
                   initPc, ctrVars>>

FetchProjectsResp == \E m \in Arrived("fetchProjects") : FetchProjectsRespOf(m)

\* fetchAllEntries after the select
FetchAllEntriesRespOf(m) ==
    /\ allEntries' = IF m.err THEN allEntries ELSE m.data
    /\ net' = Take(m)
    /\ NoAlert
    /\ UNCHANGED <<user, projects, entries, publicEntries, navVars, flagVars,
                   projFormVars, formVars, browserVars, authSession, dbVars, initPc,
                   ctrVars>>

FetchAllEntriesResp == \E m \in Arrived("fetchAllEntries") : FetchAllEntriesRespOf(m)

\* fetchEntries after the select; awaited by handleLoadSharedProject, which then
\* does setView('project') and returns to init's setLoading(false)
FetchEntriesRespOf(m) ==
    /\ entries' = IF m.err THEN entries ELSE m.data
    /\ view' = IF m.then = "shared" THEN "project" ELSE view
    /\ loading' = IF m.then = "shared" THEN FALSE ELSE loading
    /\ net' = Take(m)
    /\ NoAlert
    /\ UNCHANGED <<user, projects, allEntries, publicEntries, selectedProject,
                   filterCategory, publicLoading, uploading, projFormVars, formVars,
                   browserVars, authSession, dbVars, initPc, ctrVars>>

FetchEntriesResp == \E m \in Arrived("fetchEntries") : FetchEntriesRespOf(m)

\* fetchPublicEntries after the select: finally setPublicLoading(false)
FetchPublicRespOf(m) ==
    /\ publicEntries' = IF m.err THEN publicEntries ELSE m.data
    /\ publicLoading' = FALSE
    /\ net' = Take(m)
    /\ NoAlert
    /\ UNCHANGED <<user, projects, entries, allEntries, navVars, loading, uploading,
                   projFormVars, formVars, browserVars, authSession, dbVars, initPc,
                   ctrVars>>

FetchPublicResp == \E m \in Arrived("fetchPublic") : FetchPublicRespOf(m)

(***************************************************************************)
(* Navigation Controller.                                                  *)
(***************************************************************************)
\* home: onClick={() => setView('dashboard')}
ViewDashboard ==
  /\ MainClickable /\ view = "home"
  /\ view' = "dashboard"
  /\ NoAlert
  /\ UNCHANGED <<user, listVars, selectedProject, filterCategory, flagVars, projFormVars,
                 formVars, browserVars, authSession, dbVars, net, initPc, ctrVars>>

\* home: onClick={() => { fetchPublicEntries(); setView('public'); }}
ViewPublic ==
  /\ MainClickable /\ view = "home"
  /\ Inflight < MaxInflight
  /\ publicLoading' = TRUE
  /\ Send(Request([op |-> "fetchPublic"]))
  /\ view' = "public"
  /\ NoAlert
  /\ UNCHANGED <<user, listVars, selectedProject, filterCategory, loading, uploading,
                 projFormVars, formVars, browserVars, authSession, dbVars, initPc,
                 ctrVars>>

\* handleSelectProject(project): the state it sets
SelectProjectEffect(project, pending) ==
  /\ selectedProject' = Some(project)
  /\ net' = pending (+) SetToBag({Request([op |-> "fetchEntries",
                                           projectId |-> project.id, then |-> "none"])})
  /\ view' = "project"

\* dashboard: ProjectCard onClick
HandleSelectProject ==
  \E i \in DOMAIN projects :
    /\ MainClickable /\ view = "dashboard"
    /\ Inflight < MaxInflight
    /\ SelectProjectEffect(projects[i], net)
    /\ NoAlert
    /\ UNCHANGED <<user, listVars, filterCategory, flagVars, projFormVars, formVars,
                   browserVars, authSession, dbVars, initPc, ctrVars>>

\* a handleBack that always leads home
HandleBack_ToHome ==
  /\ MainClickable
  /\ url' = IF HasShareParam THEN NoParam ELSE url
  /\ view' = "home"
  /\ selectedProject' = IF view = "project" THEN None ELSE selectedProject
  /\ entries' = IF view = "project" THEN <<>> ELSE entries
  /\ NoAlert
  /\ UNCHANGED <<user, projects, allEntries, publicEntries, filterCategory, flagVars,
                 projFormVars, formVars, clipboard, blobs, authSession, dbVars, net,
                 initPc, ctrVars>>

\* handleBack: header logo, header back button, project view back button
HandleBack ==
  /\ MainClickable
  /\ url' = IF HasShareParam THEN NoParam ELSE url
  /\ view' = IF view = "project" THEN "dashboard" ELSE "home"
  /\ selectedProject' = IF view = "project" THEN None ELSE selectedProject
  /\ entries' = IF view = "project" THEN <<>> ELSE entries
  /\ NoAlert
  /\ UNCHANGED <<user, projects, allEntries, publicEntries, filterCategory, flagVars,
                 projFormVars, formVars, clipboard, blobs, authSession, dbVars, net,
                 initPc, ctrVars>>

\* project view: the category filter buttons
SetFilterCategory ==
  \E c \in CATEGORIES \cup {"all"} :
    /\ MainClickable /\ ProjectViewShown
    /\ filterCategory' = IF c = "all" \/ filterCategory = c THEN "all" ELSE c
    /\ filterCategory' # filterCategory
    /\ NoAlert
    /\ UNCHANGED <<user, listVars, view, selectedProject, flagVars, projFormVars,
                   formVars, browserVars, authSession, dbVars, net, initPc, ctrVars>>

(***************************************************************************)
(* Projects: the create/edit modal, handleCreateProject,                   *)
(* handleDeleteProject, handleCopyShareLink.                               *)
(***************************************************************************)
ProjectModalClickable == ProjectModalShown /\ ~UploadModalShown
IdOf(opt) == IF opt = None THEN 0 ELSE opt[1].id

\* home and dashboard: onClick={() => setShowCreateProject(true)}
CanOpenCreateProject == MainClickable /\ view \in {"home", "dashboard"}

OpenCreateProject ==
  /\ CanOpenCreateProject
  /\ showCreateProject' = TRUE
  /\ NoAlert
  /\ UNCHANGED <<user, listVars, navVars, flagVars, editingProject, newProjectName,
                 newProjectDesc, formVars, browserVars, authSession, dbVars, net,
                 initPc, ctrVars>>

\* dashboard: ProjectCard onEdit
OpenEditProject ==
  \E i \in DOMAIN projects :
    /\ MainClickable /\ view = "dashboard"
    /\ editingProject' = Some(projects[i])
    /\ newProjectName' = projects[i].name
    /\ newProjectDesc' = projects[i].description
    /\ showCreateProject' = TRUE
    /\ NoAlert
    /\ UNCHANGED <<user, listVars, navVars, flagVars, formVars, browserVars,
                   authSession, dbVars, net, initPc, ctrVars>>

\* project modal: X and cancel
CloseProjectModal ==
  /\ ProjectModalClickable
  /\ showCreateProject' = FALSE
  /\ editingProject' = None
  /\ newProjectName' = ""
  /\ newProjectDesc' = ""
  /\ NoAlert
  /\ UNCHANGED <<user, listVars, navVars, flagVars, formVars, browserVars,
                 authSession, dbVars, net, initPc, ctrVars>>

\* project modal: the name and description inputs
TypeProject ==
  \E n \in Names \cup {""}, d \in Descs :
    /\ ProjectModalClickable
    /\ <<n, d>> # <<newProjectName, newProjectDesc>>
    /\ newProjectName' = n
    /\ newProjectDesc' = d
    /\ NoAlert
    /\ UNCHANGED <<user, listVars, navVars, flagVars, showCreateProject, editingProject,
                   formVars, browserVars, authSession, dbVars, net, initPc, ctrVars>>

\* the row handleCreateProject inserts
NewProjectRow(uuid) ==
  [name |-> newProjectName, description |-> newProjectDesc, user_id |-> user,
   share_id |-> uuid]

\* handleCreateProject, create branch, up to the insert
SubmitNewProject ==
  /\ ProjectModalClickable
  /\ newProjectName # "" /\ ~uploading
  /\ editingProject = None
  /\ Inflight < MaxInflight /\ nextUuid <= MaxUuid
  /\ uploading' = TRUE
  /\ nextUuid' = nextUuid + 1
  /\ Send(Request([op |-> "insertProject", row |-> NewProjectRow(nextUuid)]))
  /\ NoAlert
  /\ UNCHANGED <<user, listVars, navVars, loading, publicLoading, projFormVars, formVars,
                 browserVars, authSession, dbVars, initPc, now, nextBlob>>

\* handleCreateProject, edit branch, up to the update
SubmitEditProject ==
  /\ ProjectModalClickable
  /\ newProjectName # "" /\ ~uploading
  /\ editingProject # None
  /\ Inflight < MaxInflight
  /\ uploading' = TRUE
  /\ Send(Request([op |-> "updateProject", id |-> editingProject[1].id,
                   name |-> newProjectName, description |-> newProjectDesc,
                   editingProject |-> editingProject[1], selId |-> IdOf(selectedProject)]))
  /\ NoAlert
  /\ UNCHANGED <<user, listVars, navVars, loading, publicLoading, projFormVars, formVars,
                 browserVars, authSession, dbVars, initPc, ctrVars>>

\* a createdProject built from the returned row alone, whose select list has no share_id
CreatedProject_Unshared(row, newProject) == Spread(row, [share_id |-> NullShare])

\* const createdProject = { ...data[0], share_id: newProject.share_id }
CreatedProject(row, newProject) == Spread(row, [share_id |-> newProject.share_id])

\* handleCreateProject, create branch, after the insert
InsertProjectRespOf(m) ==
    /\ IF m.err
         THEN /\ alertMsg' = "createProjectFailed"
              /\ net' = Take(m)
              /\ UNCHANGED <<projects, showCreateProject, newProjectName, newProjectDesc,
                             view, selectedProject>>
         ELSE IF m.data # <<>>
           THEN /\ alertMsg' = "none"
                /\ projects' = <<CreatedProject(m.data[1], m.row)>> \o projects
                /\ showCreateProject' = FALSE
                /\ newProjectName' = ""
                /\ newProjectDesc' = ""
                /\ SelectProjectEffect(CreatedProject(m.data[1], m.row), Take(m))
           ELSE /\ alertMsg' = "none"
                /\ net' = Take(m)
                /\ UNCHANGED <<projects, showCreateProject, newProjectName,
                               newProjectDesc, view, selectedProject>>
    /\ uploading' = FALSE
   
    /\ UNCHANGED <<user, entries, allEntries, publicEntries, filterCategory, loading,
                   publicLoading, editingProject, formVars, browserVars, authSession,
                   dbVars, initPc, ctrVars>>

InsertProjectResp == \E m \in Arrived("insertProject") : InsertProjectRespOf(m)

\* const updatedProject = { ...editingProject, ...data[0] }
UpdatedProject(editing, row) == Spread(editing, row)

\* handleCreateProject, edit branch, after the update
UpdateProjectRespOf(m) ==
    /\ IF m.err
         THEN /\ alertMsg' = "createProjectFailed"
              /\ UNCHANGED <<projects, selectedProject, projFormVars>>
         ELSE IF m.data # <<>>
           THEN /\ alertMsg' = "none"
                /\ projects' = [i \in DOMAIN projects |->
                                  IF projects[i].id = m.editingProject.id
                                  THEN UpdatedProject(m.editingProject, m.data[1])
                                  ELSE projects[i]]
                /\ selectedProject' = IF m.selId = m.editingProject.id
                                      THEN Some(UpdatedProject(m.editingProject, m.data[1]))
                                      ELSE selectedProject
                /\ showCreateProject' = FALSE
                /\ editingProject' = None
                /\ newProjectName' = ""
                /\ newProjectDesc' = ""
           ELSE /\ alertMsg' = "none"
                /\ UNCHANGED <<projects, selectedProject, projFormVars>>
    /\ net' = Take(m)
    /\ uploading' = FALSE
   
    /\ UNCHANGED <<user, entries, allEntries, publicEntries, view, filterCategory,
                   loading, publicLoading, formVars, browserVars, authSession, dbVars,
                   initPc, ctrVars>>

UpdateProjectResp == \E m \in Arrived("updateProject") : UpdateProjectRespOf(m)

\* dashboard: ProjectCard onDelete
CanDeleteProject == MainClickable /\ view = "dashboard"

\* handleDeleteProject up to the delete (window.confirm accepted)
HandleDeleteProject ==
  \E i \in DOMAIN projects :
    /\ CanDeleteProject
    /\ Inflight < MaxInflight
    /\ Send(Request([op |-> "deleteProject", id |-> projects[i].id, cu |-> user]))
    /\ NoAlert
    /\ UNCHANGED <<user, listVars, navVars, flagVars, projFormVars, formVars,
                   browserVars, authSession, dbVars, initPc, ctrVars>>

\* a handleDeleteProject that does not fetch the projects again
DeleteProjectRespOf_NoRefetch(m) ==
    /\ alertMsg' = IF m.err THEN "deleteFailed" ELSE "none"
    /\ net' = Take(m)
    /\ UNCHANGED <<user, listVars, navVars, flagVars, projFormVars, formVars,
                   browserVars, authSession, dbVars, initPc, ctrVars>>

\* handleDeleteProject after the delete: alert, or fetchProjects() with the
\* user of the render that issued the delete
DeleteProjectRespOf(m) ==
    /\ alertMsg' = IF m.err THEN "deleteFailed" ELSE "none"
    /\ net' = IF ~m.err /\ m.cu # NoUser
              THEN Take(m) (+) SetToBag({Request([op |-> "fetchProjects", cu |-> m.cu,
                                                  then |-> "none"])})
              ELSE Take(m)
    /\ loading' = IF ~m.err /\ m.cu # NoUser THEN TRUE ELSE loading
   
    /\ UNCHANGED <<user, listVars, navVars, publicLoading, uploading, projFormVars,
                   formVars, browserVars, authSession, dbVars, initPc, ctrVars>>

DeleteProjectResp == \E m \in Arrived("deleteProject") : DeleteProjectRespOf(m)

\* project view: the copy button is rendered whenever the project view is
CanCopyShareLink == MainClickable /\ ProjectViewShown

\* handleCopyShareLink(selectedProject.share_id), share_id present: copy and alert
CopyShareLink ==
  /\ CanCopyShareLink
  /\ selectedProject[1].share_id # NullShare
  /\ clipboard' = selectedProject[1].share_id
  /\ alertMsg' = "shareLinkCopied"
 
  /\ UNCHANGED <<user, listVars, navVars, flagVars, projFormVars, formVars, url, blobs,
                 authSession, dbVars, net, initPc, ctrVars>>

\* handleCopyShareLink, share_id absent: generate one, up to the update
CopyShareLinkGenerate ==
  /\ CanCopyShareLink
  /\ selectedProject[1].share_id = NullShare
  /\ Inflight < MaxInflight /\ nextUuid <= MaxUuid
  /\ nextUuid' = nextUuid + 1
  /\ Send(Request([op |-> "updateShare", projectId |-> selectedProject[1].id,
                   newShareId |-> nextUuid]))
  /\ NoAlert
  /\ UNCHANGED <<user, listVars, navVars, flagVars, projFormVars, formVars, browserVars,
                 authSession, dbVars, initPc, now, nextBlob>>

\* a handleCopyShareLink that copies the link whatever the update answered
UpdateShareRespOf_CopyAnyway(m) ==
    /\ alertMsg' = IF m.err THEN "shareLinkFailed" ELSE "shareLinkCopied"
    /\ selectedProject' = IF m.err \/ selectedProject = None THEN selectedProject
                          ELSE Some([selectedProject[1] EXCEPT !.share_id = m.newShareId])
    /\ projects' = IF m.err THEN projects
                   ELSE [i \in DOMAIN projects |->
                           IF projects[i].id = m.projectId
                           THEN [projects[i] EXCEPT !.share_id = m.newShareId]
                           ELSE projects[i]]
    /\ clipboard' = m.newShareId
    /\ net' = Take(m)
    /\ UNCHANGED <<user, entries, allEntries, publicEntries, view, filterCategory,
                   flagVars, projFormVars, formVars, url, blobs, authSession, dbVars,
                   initPc, ctrVars>>

\* handleCopyShareLink after the update: set the states, copy, alert
UpdateShareRespOf(m) ==
    /\ alertMsg' = IF m.err THEN "shareLinkFailed" ELSE "shareLinkCopied"
    /\ selectedProject' = IF m.err \/ selectedProject = None THEN selectedProject
                          ELSE Some([selectedProject[1] EXCEPT !.share_id = m.newShareId])
    /\ projects' = IF m.err THEN projects
                   ELSE [i \in DOMAIN projects |->
                           IF projects[i].id = m.projectId
                           THEN [projects[i] EXCEPT !.share_id = m.newShareId]
                           ELSE projects[i]]
    /\ clipboard' = IF m.err THEN clipboard ELSE m.newShareId
    /\ net' = Take(m)
   
    /\ UNCHANGED <<user, entries, allEntries, publicEntries, view, filterCategory,
                   flagVars, projFormVars, formVars, url, blobs, authSession, dbVars,
                   initPc, ctrVars>>

UpdateShareResp == \E m \in Arrived("updateShare") : UpdateShareRespOf(m)

(***************************************************************************)
(* Entries: the entry modal, handleEdit, handleDeleteEntry.                *)
(***************************************************************************)
\* project view: the add button (owner view) and the empty-list button
CanOpenUpload ==
  /\ MainClickable /\ ProjectViewShown
  /\ (~IsSharedView \/ (~loading /\ entries = <<>>))

OpenUpload ==
  /\ CanOpenUpload
  /\ showUpload' = TRUE
  /\ NoAlert
  /\ UNCHANGED <<user, listVars, navVars, flagVars, projFormVars, editingEntry,
                 uploadType, isPublic, selectedCategory, selectedColor, notes, file,
                 previewUrl, browserVars, authSession, dbVars, net, initPc, ctrVars>>

\* handleEdit(entry): the state it sets
EditEffect(entry) ==
  /\ editingEntry' = Some(entry)
  /\ uploadType' = entry.type
  /\ notes' = entry.notes
  /\ isPublic' = entry.is_public
  /\ selectedCategory' = entry.category
  /\ selectedColor' = entry.color
  /\ previewUrl' = entry.url
  /\ showUpload' = TRUE

\* project view: onEdit={isSharedView ? undefined : () => handleEdit(entry)}
CanEditInProject(e) == MainClickable /\ EntryListShown /\ Visible(e) /\ ~IsSharedView
\* public feed: onEdit={user?.id === entry.user_id ? () => handleEdit(entry) : undefined}
CanEditInPublic(e) ==
  MainClickable /\ view = "public" /\ ~publicLoading /\ user # NoUser /\ user = e.user_id
\* project view: onDelete={isSharedView ? undefined : () => handleDeleteEntry(entry.id)}
CanDeleteEntry(e) == MainClickable /\ EntryListShown /\ Visible(e) /\ ~IsSharedView

HandleEditInProject ==
  \E i \in DOMAIN entries :
    /\ CanEditInProject(entries[i])
    /\ EditEffect(entries[i])
    /\ NoAlert
    /\ UNCHANGED <<user, listVars, navVars, flagVars, projFormVars, file, browserVars,
                   authSession, dbVars, net, initPc, ctrVars>>

HandleEditInPublic ==
  \E i \in DOMAIN publicEntries :
    /\ CanEditInPublic(publicEntries[i])
    /\ EditEffect(publicEntries[i])
    /\ NoAlert
    /\ UNCHANGED <<user, listVars, navVars, flagVars, projFormVars, file, browserVars,
                   authSession, dbVars, net, initPc, ctrVars>>

\* handleDeleteEntry up to the delete (window.confirm accepted)
HandleDeleteEntry ==
  \E i \in DOMAIN entries :
    /\ CanDeleteEntry(entries[i])
    /\ Inflight < MaxInflight
    /\ Send(Request([op |-> "deleteEntry", id |-> entries[i].id, sel |-> selectedProject,
                     issuer |-> user, author |-> entries[i].user_id]))
    /\ NoAlert
    /\ UNCHANGED <<user, listVars, navVars, flagVars, projFormVars, formVars,
                   browserVars, authSession, dbVars, initPc, ctrVars>>

\* a handleDeleteEntry that only logs the error
DeleteEntryRespOf_Silent(m) ==
    /\ alertMsg' = "none"
    /\ net' = IF ~m.err /\ m.sel # None
              THEN Take(m) (+) SetToBag({Request([op |-> "fetchEntries",
                                            projectId |-> m.sel[1].id, then |-> "none"])})
              ELSE Take(m)
    /\ UNCHANGED <<user, listVars, navVars, flagVars, projFormVars, formVars,
                   browserVars, authSession, dbVars, initPc, ctrVars>>

\* a handleDeleteEntry that does not fetch the entries again
DeleteEntryRespOf_NoRefetch(m) ==
    /\ alertMsg' = IF m.err THEN "deleteFailed" ELSE "none"
    /\ net' = Take(m)
    /\ UNCHANGED <<user, listVars, navVars, flagVars, projFormVars, formVars,
                   browserVars, authSession, dbVars, initPc, ctrVars>>

\* handleDeleteEntry after the delete: alert, or fetchEntries(selectedProject.id)
DeleteEntryRespOf(m) ==
    /\ alertMsg' = IF m.err THEN "deleteFailed" ELSE "none"
    /\ net' = IF ~m.err /\ m.sel # None
              THEN Take(m) (+) SetToBag({Request([op |-> "fetchEntries",
                                            projectId |-> m.sel[1].id, then |-> "none"])})
              ELSE Take(m)
   
    /\ UNCHANGED <<user, listVars, navVars, flagVars, projFormVars, formVars,
                   browserVars, authSession, dbVars, initPc, ctrVars>>

DeleteEntryResp == \E m \in Arrived("deleteEntry") : DeleteEntryRespOf(m)

\* entry modal: X and cancel
CloseUpload ==
  /\ UploadModalShown
  /\ showUpload' = FALSE
  /\ editingEntry' = None
  /\ notes' = ""
  /\ file' = NoFile
  /\ previewUrl' = NoUrl
  /\ uploadType' = NoType
  /\ selectedCategory' = ""
  /\ selectedColor' = ""
  /\ NoAlert
  /\ UNCHANGED <<user, listVars, navVars, flagVars, projFormVars, isPublic, browserVars,
                 authSession, dbVars, net, initPc, ctrVars>>

\* entry modal: the media tab and the text tab, inert while editing
SetTab ==
  \E t \in {NoType, "text"} :
    /\ UploadModalShown
    /\ editingEntry = None
    /\ <<t, NoUrl, NoFile>> # <<uploadType, previewUrl, file>>
    /\ uploadType' = t
    /\ previewUrl' = NoUrl
    /\ file' = NoFile
    /\ NoAlert
    /\ UNCHANGED <<user, listVars, navVars, flagVars, projFormVars, showUpload,
                   editingEntry, isPublic, selectedCategory, selectedColor, notes,
                   browserVars, authSession, dbVars, net, initPc, ctrVars>>

\* handleFileChange: the file input is rendered while no preview is shown
HandleFileChange ==
  \E f \in FileTypes :
    /\ UploadModalShown
    /\ uploadType # "text" /\ previewUrl = NoUrl
    /\ nextBlob <= MaxBlob
    /\ file' = f
    /\ previewUrl' = BlobUrl(nextBlob)
    /\ blobs' = blobs \cup {nextBlob}
    /\ nextBlob' = nextBlob + 1
    /\ uploadType' = KindOfFile(f)
    /\ NoAlert
    /\ UNCHANGED <<user, listVars, navVars, flagVars, projFormVars, showUpload,
                   editingEntry, isPublic, selectedCategory, selectedColor, notes, url,
                   clipboard, authSession, dbVars, net, initPc, nextUuid, now>>

\* entry modal: the X on the preview
ClearPreview ==
  /\ UploadModalShown
  /\ uploadType # "text" /\ previewUrl # NoUrl
  /\ previewUrl' = NoUrl
  /\ file' = NoFile
  /\ NoAlert
  /\ UNCHANGED <<user, listVars, navVars, flagVars, projFormVars, showUpload,
                 editingEntry, uploadType, isPublic, selectedCategory, selectedColor,
                 notes, browserVars, authSession, dbVars, net, initPc, ctrVars>>

\* entry modal: the notes textarea
TypeNotes ==
  \E n \in NoteTexts :
    /\ UploadModalShown
    /\ n # notes
    /\ notes' = n
    /\ NoAlert
    /\ UNCHANGED <<user, listVars, navVars, flagVars, projFormVars, showUpload,
                   editingEntry, uploadType, isPublic, selectedCategory, selectedColor,
                   file, previewUrl, browserVars, authSession, dbVars, net, initPc,
                   ctrVars>>

\* entry modal: a category button (toggles; sets the default colour if none is set)
PickCategory ==
  \E c \in CATEGORIES :
    /\ UploadModalShown
    /\ selectedCategory' = IF selectedCategory = c THEN "" ELSE c
    /\ selectedColor' = IF selectedCategory # c /\ selectedColor = ""
                        THEN DefaultColor(c) ELSE selectedColor
    /\ NoAlert
    /\ UNCHANGED <<user, listVars, navVars, flagVars, projFormVars, showUpload,
                   editingEntry, uploadType, isPublic, notes, file, previewUrl,
                   browserVars, authSession, dbVars, net, initPc, ctrVars>>

\* entry modal: a colour button
PickColor ==
  \E c \in COLORS :
    /\ UploadModalShown
    /\ c # selectedColor
    /\ selectedColor' = c
    /\ NoAlert
    /\ UNCHANGED <<user, listVars, navVars, flagVars, projFormVars, showUpload,
                   editingEntry, uploadType, isPublic, selectedCategory, notes, file,
                   previewUrl, browserVars, authSession, dbVars, net, initPc, ctrVars>>

\* entry modal: the public checkbox
TogglePublic ==
  /\ UploadModalShown
  /\ isPublic' = ~isPublic
  /\ NoAlert
  /\ UNCHANGED <<user, listVars, navVars, flagVars, projFormVars, showUpload,
                 editingEntry, uploadType, selectedCategory, selectedColor, notes, file,
                 previewUrl, browserVars, authSession, dbVars, net, initPc, ctrVars>>

(***************************************************************************)
(* Upload Pipeline: handleUpload.                                          *)
(***************************************************************************)
\* a guard without the check for a missing file
UploadGuard_NoFileCheck ==
  /\ uploadType # NoType
  /\ (selectedProject # None \/ editingEntry # None)
  /\ ~(uploadType = "text" /\ Trim(notes) = "")
  /\ ~uploading

\* handleUpload's early returns and the save button's disabled attribute
UploadGuard ==
  /\ uploadType # NoType
  /\ (selectedProject # None \/ editingEntry # None)
  /\ ~(uploadType # "text" /\ file = NoFile /\ editingEntry = None)
  /\ ~(uploadType = "text" /\ Trim(notes) = "")
  /\ ~uploading

\* a url taken from the preview instead of the edited entry
EntryUrl_FromPreview(c, finalUrl) ==
  IF c.uploadType = "text" THEN NoUrl
  ELSE IF finalUrl # NoUrl THEN finalUrl
  ELSE c.previewUrl

\* the state handleUpload's closure captured when the save button was clicked
Closure ==
  [uploadType |-> uploadType, editingEntry |-> editingEntry, file |-> file,
   notes |-> notes, isPublic |-> isPublic, selectedCategory |-> selectedCategory,
   selectedColor |-> selectedColor, user |-> user, view |-> view,
   selectedProject |-> selectedProject, previewUrl |-> previewUrl]

\* url: uploadType === 'text' ? null : (finalUrl || (editingEntry ? editingEntry.url : null))
EntryUrl(c, finalUrl) ==
  IF c.uploadType = "text" THEN NoUrl
  ELSE IF finalUrl # NoUrl THEN finalUrl
  ELSE IF c.editingEntry # None THEN c.editingEntry[1].url
  ELSE NoUrl

\* timestamp: editingEntry ? editingEntry.timestamp : Date.now()
EntryTimestamp(c, t) == IF c.editingEntry # None THEN c.editingEntry[1].timestamp ELSE t

\* project_id: editingEntry ? editingEntry.project_id : (selectedProject?.id || '')
EntryProjectId(c) ==
  IF c.editingEntry # None THEN c.editingEntry[1].project_id ELSE IdOf(c.selectedProject)

\* const newEntry = { ... }
NewEntry(c, finalUrl, t) ==
  [type |-> c.uploadType, url |-> EntryUrl(c, finalUrl), notes |-> c.notes,
   timestamp |-> EntryTimestamp(c, t), project_id |-> EntryProjectId(c),
   user_id |-> c.user, is_public |-> c.isPublic, category |-> c.selectedCategory,
   color |-> c.selectedColor]

\* editingEntry ? .update(newEntry).eq('id', editingEntry.id) : .insert([newEntry])
SaveRequest(c, finalUrl, t) ==
  Request([op |-> IF c.editingEntry # None THEN "updateEntry" ELSE "insertEntry",
           id |-> IdOf(c.editingEntry), row |-> NewEntry(c, finalUrl, t), c |-> c,
           issuer |-> user,
           author |-> IF c.editingEntry # None THEN c.editingEntry[1].user_id ELSE c.user])

\* new entries whose Date.now() is still to be read
PendingNewUploads ==
  Cardinality({m \in BagToSet(net) : m.op = "storageUpload" /\ m.c.editingEntry = None})

\* handleUpload with a file to upload, up to the storage upload
SubmitUploadFile ==
  /\ UploadModalShown /\ UploadGuard
  /\ uploadType # "text" /\ file # NoFile
  /\ Inflight < MaxInflight /\ nextUuid <= MaxUuid
  /\ now + PendingNewUploads <= MaxClock
  /\ uploading' = TRUE
  /\ nextUuid' = nextUuid + 1
  /\ Send(Request([op |-> "storageUpload", path |-> FilePath(uploadType, nextUuid),
                   c |-> Closure]))
  /\ NoAlert
  /\ UNCHANGED <<user, listVars, navVars, loading, publicLoading, projFormVars, formVars,
                 browserVars, authSession, dbVars, initPc, now, nextBlob>>

\* handleUpload after the storage upload: getPublicUrl, then the insert or update
StorageUploadRespOf(m) ==
    /\ alertMsg' = IF m.err THEN "saveFailed" ELSE "none"
    /\ net' = IF m.err THEN Take(m)
              ELSE Take(m) (+) SetToBag({SaveRequest(m.c, PublicUrl(m.path), now)})
    /\ now' = IF ~m.err /\ m.c.editingEntry = None THEN now + 1 ELSE now
    /\ uploading' = IF m.err THEN FALSE ELSE uploading
   
    /\ UNCHANGED <<user, listVars, navVars, loading, publicLoading, projFormVars, formVars,
                   browserVars, authSession, dbVars, initPc, nextUuid, nextBlob>>

StorageUploadResp == \E m \in Arrived("storageUpload") : StorageUploadRespOf(m)

\* handleUpload without a file to upload (text, or an edit keeping its media),
\* up to the insert or update
SubmitEntry ==
  /\ UploadModalShown /\ UploadGuard
  /\ ~(uploadType # "text" /\ file # NoFile)
  /\ Inflight < MaxInflight
  /\ now + PendingNewUploads <= MaxClock
  /\ uploading' = TRUE
  /\ Send(SaveRequest(Closure, NoUrl, now))
  /\ now' = IF editingEntry = None THEN now + 1 ELSE now
  /\ NoAlert
  /\ UNCHANGED <<user, listVars, navVars, loading, publicLoading, projFormVars, formVars,
                 browserVars, authSession, dbVars, initPc, nextUuid, nextBlob>>

\* [savedEntry, ...prev].sort((a, b) => b.timestamp - a.timestamp): stable
RECURSIVE InsertDesc(_, _)
InsertDesc(e, sorted) ==
  IF sorted = <<>> THEN <<e>>
  ELSE IF Head(sorted).timestamp >= e.timestamp
    THEN <<Head(sorted)>> \o InsertDesc(e, Tail(sorted))
    ELSE <<e>> \o sorted
RECURSIVE SortDesc(_)
SortDesc(seq) ==
  IF seq = <<>> THEN <<>>
  ELSE InsertDesc(seq[Len(seq)], SortDesc(SubSeq(seq, 1, Len(seq) - 1)))

Map(seq, id_, row) == [i \in DOMAIN seq |-> IF seq[i].id = id_ THEN row ELSE seq[i]]
Without(seq, id_) == SelectSeq(seq, LAMBDA e : e.id # id_)
Has(seq, id_) == \E i \in DOMAIN seq : seq[i].id = id_

\* the local merge of the saved row into entries
MergedEntries(c, saved) ==
  IF c.editingEntry # None THEN Map(entries, c.editingEntry[1].id, saved)
  ELSE <<saved>> \o entries

\* the local merge of the saved row into publicEntries
MergedPublic(c, saved) ==
  IF c.editingEntry # None
    THEN IF saved.is_public
           THEN IF Has(publicEntries, saved.id) THEN Map(publicEntries, saved.id, saved)
                ELSE SortDesc(<<saved>> \o publicEntries)
           ELSE Without(publicEntries, saved.id)
    ELSE IF c.isPublic THEN <<saved>> \o publicEntries ELSE publicEntries

MergedAll(c, saved) ==
  IF c.editingEntry # None THEN allEntries
  ELSE <<[timestamp |-> saved.timestamp]>> \o allEntries

\* the refetch after the merge
Refetch(c) ==
  IF c.view = "project" /\ c.selectedProject # None
    THEN {Request([op |-> "fetchEntries", projectId |-> c.selectedProject[1].id,
                   then |-> "none"])}
  ELSE IF c.view = "public" THEN {Request([op |-> "fetchPublic"])}
  ELSE {}

\* if (previewUrl && (!editingEntry || previewUrl !== editingEntry.url)) revokeObjectURL
Revoked(c) ==
  IF c.previewUrl # NoUrl /\ (c.editingEntry = None \/ c.previewUrl # c.editingEntry[1].url)
     /\ c.previewUrl.scheme = "blob"
  THEN {c.previewUrl.n} ELSE {}

\* whether the save took handleUpload's catch branch
SaveFailed(m) == m.err \/ m.data = <<>>

\* handleUpload after the insert or update
SaveResp(m) ==
    /\ IF SaveFailed(m)
         THEN /\ alertMsg' = "saveFailed"
              /\ net' = Take(m)
              /\ UNCHANGED <<listVars, formVars, blobs, publicLoading>>
         ELSE /\ alertMsg' = "none"
              /\ entries' = MergedEntries(m.c, m.data[1])
              /\ publicEntries' = MergedPublic(m.c, m.data[1])
              /\ allEntries' = MergedAll(m.c, m.data[1])
              /\ projects' = projects
              /\ net' = Take(m) (+) SetToBag(Refetch(m.c))
              /\ publicLoading' = IF \E r \in Refetch(m.c) : r.op = "fetchPublic"
                                  THEN TRUE ELSE publicLoading
              /\ showUpload' = FALSE
              /\ notes' = ""
              /\ file' = NoFile
              /\ blobs' = blobs \ Revoked(m.c)
              /\ previewUrl' = NoUrl
              /\ uploadType' = NoType
              /\ isPublic' = FALSE
              /\ selectedCategory' = ""
              /\ selectedColor' = ""
              /\ editingEntry' = None
    /\ uploading' = FALSE
    /\ UNCHANGED <<user, navVars, loading, projFormVars, url, clipboard, authSession,
                   dbVars, initPc, ctrVars>>

InsertEntryResp == \E m \in Arrived("insertEntry") : SaveResp(m)

UpdateEntryResp == \E m \in Arrived("updateEntry") : SaveResp(m)

(***************************************************************************)
(* The component after construction (the useState initial values), the     *)
(* page URL it was opened with, and the collaborators' state at that time. *)
(***************************************************************************)
InitClient ==
  /\ user = NoUser /\ view = "home" /\ projects = <<>> /\ selectedProject = None
  /\ entries = <<>> /\ allEntries = <<>> /\ publicEntries = <<>>
  /\ loading = TRUE /\ publicLoading = FALSE /\ uploading = FALSE
  /\ showUpload = FALSE /\ editingEntry = None /\ editingProject = None
  /\ showCreateProject = FALSE /\ newProjectName = "" /\ newProjectDesc = ""
  /\ uploadType = NoType /\ isPublic = FALSE /\ selectedCategory = ""
  /\ selectedColor = "" /\ filterCategory = "all" /\ notes = "" /\ file = NoFile
  /\ previewUrl = NoUrl
  /\ clipboard = NullShare /\ blobs = {} /\ alertMsg = "none"
  /\ net = EmptyBag /\ initPc = "getSession"
  /\ nextUuid = 1 /\ nextBlob = 1

InitStore ==
  /\ dbProjects = {SeedProject, LegacyProject}
  /\ dbEntries = {SeedText, SeedImage}
  /\ storage = {FilePath("image", 100)}
  /\ nextProjectId = 3 /\ nextEntryId = 3 /\ now = 3

Init ==
  /\ InitClient /\ InitStore
  /\ url \in {NoParam, EmptyParam, SeedShare, BadShare}
  /\ authSession \in {NoUser} \cup Users

Session ==
  \/ InitSession
  \/ \E u \in Users : AuthSignedIn(u)
  \/ AuthSignedOut
  \/ LoadSharedResp
  \/ FetchProjectsResp
  \/ FetchAllEntriesResp
  \/ FetchEntriesResp
  \/ FetchPublicResp

Navigation ==
  \/ ViewDashboard
  \/ ViewPublic
  \/ HandleSelectProject
  \/ HandleBack
  \/ SetFilterCategory

ProjectOps ==
  \/ OpenCreateProject
  \/ OpenEditProject
  \/ CloseProjectModal
  \/ TypeProject
  \/ SubmitNewProject
  \/ SubmitEditProject
  \/ InsertProjectResp
  \/ UpdateProjectResp
  \/ HandleDeleteProject
  \/ DeleteProjectResp
  \/ CopyShareLink
  \/ CopyShareLinkGenerate
  \/ UpdateShareResp

EntryOps ==
  \/ OpenUpload
  \/ HandleEditInProject
  \/ HandleEditInPublic
  \/ HandleDeleteEntry
  \/ DeleteEntryResp
  \/ CloseUpload
  \/ SetTab
  \/ HandleFileChange
  \/ ClearPreview
  \/ TypeNotes
  \/ PickCategory
  \/ PickColor
  \/ TogglePublic
  \/ SubmitUploadFile
  \/ StorageUploadResp
  \/ SubmitEntry
  \/ InsertEntryResp
  \/ UpdateEntryResp

Store == StoreOk \/ StoreFail

Next == Session \/ Navigation \/ ProjectOps \/ EntryOps \/ Store

Spec == Init /\ [][Next]_vars

(***************************************************************************)
(* Session and navigation: every page load, sign-in and sign-out, project  *)
(* selection and back, both modals opened and closed.                      *)
(***************************************************************************)
NextNav ==
  \/ InitSession
  \/ \E u \in Users : AuthSignedIn(u)
  \/ AuthSignedOut
  \/ LoadSharedResp
  \/ FetchProjectsResp
  \/ FetchAllEntriesResp
  \/ FetchEntriesResp
  \/ ViewDashboard
  \/ HandleSelectProject
  \/ HandleBack
  \/ OpenCreateProject
  \/ CloseProjectModal
  \/ OpenUpload
  \/ CloseUpload
  \/ StoreOk
  \/ StoreFail

SpecNav == Init /\ [][NextNav]_vars

(***************************************************************************)
(* Owner session (u1 signed in, no share link): creating a project,        *)
(* selecting one, going back, the share link.                              *)
(***************************************************************************)
InitOwner == InitClient /\ InitStore /\ url = NoParam /\ authSession = "u1"

NextProject ==
  \/ InitSession
  \/ FetchProjectsResp
  \/ FetchAllEntriesResp
  \/ FetchEntriesResp
  \/ ViewDashboard
  \/ HandleSelectProject
  \/ HandleBack
  \/ OpenCreateProject
  \/ CloseProjectModal
  \/ TypeProject
  \/ SubmitNewProject
  \/ InsertProjectResp
  \/ CopyShareLink
  \/ CopyShareLinkGenerate
  \/ UpdateShareResp
  \/ StoreOk
  \/ StoreFail

SpecProject == InitOwner /\ [][NextProject]_vars

(***************************************************************************)
(* Owner session: editing the entries of a project, saved or not.          *)
(***************************************************************************)
NextEdit ==
  \/ InitSession
  \/ FetchProjectsResp
  \/ FetchAllEntriesResp
  \/ FetchEntriesResp
  \/ ViewDashboard
  \/ HandleSelectProject
  \/ HandleEditInProject
  \/ CloseUpload
  \/ HandleFileChange
  \/ ClearPreview
  \/ SubmitUploadFile
  \/ StorageUploadResp
  \/ SubmitEntry
  \/ UpdateEntryResp
  \/ StoreOk
  \/ StoreFail

SpecEdit == InitOwner /\ [][NextEdit]_vars

(***************************************************************************)
(* Owner session, the database refusing writes: every way through the      *)
(* entry modal (new and edit, tabs, files, preview, notes, cancel) up to    *)
(* the save and its failure.                                               *)
(***************************************************************************)
NextForm ==
  \/ InitSession
  \/ FetchProjectsResp
  \/ FetchAllEntriesResp
  \/ FetchEntriesResp
  \/ ViewDashboard
  \/ HandleSelectProject
  \/ OpenUpload
  \/ HandleEditInProject
  \/ CloseUpload
  \/ SetTab
  \/ HandleFileChange
  \/ ClearPreview
  \/ TypeNotes
  \/ SubmitUploadFile
  \/ StorageUploadResp
  \/ SubmitEntry
  \/ InsertEntryResp
  \/ UpdateEntryResp
  \/ StoreServes
  \/ StoreFail

SpecForm == InitOwner /\ [][NextForm]_vars

(***************************************************************************)
(* The same browser tab handed from one user to the next: sign-out and     *)
(* sign-in around the entry modal, the database refusing writes.           *)
(***************************************************************************)
NextHandover ==
  \/ InitSession
  \/ \E u \in Users : AuthSignedIn(u)
  \/ AuthSignedOut
  \/ FetchProjectsResp
  \/ FetchAllEntriesResp
  \/ FetchEntriesResp
  \/ ViewDashboard
  \/ HandleSelectProject
  \/ HandleEditInProject
  \/ HandleDeleteEntry
  \/ DeleteEntryResp
  \/ SubmitEntry
  \/ UpdateEntryResp
  \/ StoreServes
  \/ StoreFail

SpecHandover == InitOwner /\ [][NextHandover]_vars

(***************************************************************************)
(* Owner session, the database refusing writes: every mutation handler     *)
(* (project create, edit, delete; entry create, edit, delete; upload)      *)
(* and its failure.                                                        *)
(***************************************************************************)
NextOutage ==
  \/ InitSession
  \/ FetchProjectsResp
  \/ FetchAllEntriesResp
  \/ FetchEntriesResp
  \/ ViewDashboard
  \/ HandleSelectProject
  \/ OpenCreateProject
  \/ OpenEditProject
  \/ CloseProjectModal
  \/ TypeProject
  \/ SubmitNewProject
  \/ InsertProjectResp
  \/ SubmitEditProject
  \/ UpdateProjectResp
  \/ HandleDeleteProject
  \/ DeleteProjectResp
  \/ OpenUpload
  \/ HandleEditInProject
  \/ CloseUpload
  \/ SetTab
  \/ TypeNotes
  \/ HandleFileChange
  \/ SubmitUploadFile
  \/ StorageUploadResp
  \/ SubmitEntry
  \/ InsertEntryResp
  \/ UpdateEntryResp
  \/ HandleDeleteEntry
  \/ DeleteEntryResp
  \/ StoreServes
  \/ StoreFail

SpecOutage == InitOwner /\ [][NextOutage]_vars

(***************************************************************************)
(* Owner session: text entries created and edited in a project, the save   *)
(* answered or refused.                                                    *)
(***************************************************************************)
NextSave ==
  \/ InitSession
  \/ FetchProjectsResp
  \/ FetchAllEntriesResp
  \/ FetchEntriesResp
  \/ ViewDashboard
  \/ HandleSelectProject
  \/ OpenUpload
  \/ HandleEditInProject
  \/ SetTab
  \/ TypeNotes
  \/ SubmitEntry
  \/ InsertEntryResp
  \/ UpdateEntryResp
  \/ StoreOk
  \/ StoreFail

SpecSave == InitOwner /\ [][NextSave]_vars

(***************************************************************************)
(* Owner session: entries edited from the project view and from the public *)
(* feed, their public flag switched, the feed fetched on every visit.      *)
(***************************************************************************)
NextPublic ==
  \/ InitSession
  \/ FetchProjectsResp
  \/ FetchAllEntriesResp
  \/ FetchEntriesResp
  \/ FetchPublicResp
  \/ ViewDashboard
  \/ ViewPublic
  \/ HandleSelectProject
  \/ HandleBack
  \/ HandleEditInProject
  \/ HandleEditInPublic
  \/ CloseUpload
  \/ TogglePublic
  \/ SubmitEntry
  \/ UpdateEntryResp
  \/ StoreOk
  \/ StoreFail

SpecPublic == InitOwner /\ [][NextPublic]_vars

(***************************************************************************)
(* Owner session: projects and entries deleted, the database answering     *)
(* every select and accepting or refusing the deletes.  The store answers  *)
(* every request it was sent, and every continuation whose response has    *)
(* arrived runs.                                                           *)
(***************************************************************************)
NextDelete ==
  \/ InitSession
  \/ FetchProjectsResp
  \/ FetchAllEntriesResp
  \/ FetchEntriesResp
  \/ ViewDashboard
  \/ HandleSelectProject
  \/ HandleBack
  \/ SetFilterCategory
  \/ HandleDeleteProject
  \/ DeleteProjectResp
  \/ HandleDeleteEntry
  \/ DeleteEntryResp
  \/ StoreOk
  \/ StoreRefuses

SpecDelete ==
  /\ InitOwner /\ [][NextDelete]_vars
  /\ WF_vars(InitSession)
  /\ \A op_ \in {"fetchProjects", "fetchAllEntries", "fetchEntries",
                  "deleteProject", "deleteEntry"} :
       WF_vars(\E m \in Sent : m.op = op_ /\ StoreOkOf(m))
  /\ WF_vars(FetchProjectsResp)
  /\ WF_vars(FetchAllEntriesResp)
  /\ WF_vars(FetchEntriesResp)
  /\ \A id_ \in 1..MaxProjectId :
       WF_vars(\E m \in Arrived("deleteProject") :
                 m.id = id_ /\ ~m.err /\ DeleteProjectRespOf(m))
  /\ \A id_ \in 1..MaxEntryId :
       WF_vars(\E m \in Arrived("deleteEntry") :
                 m.id = id_ /\ ~m.err /\ DeleteEntryRespOf(m))

(***************************************************************************)
(* Every page load, with and without share link and session: the visitor   *)
(* goes back, opens the dashboard, selects a project, creates one.         *)
(***************************************************************************)
NextVisitor ==
  \/ InitSession
  \/ LoadSharedResp
  \/ FetchProjectsResp
  \/ FetchAllEntriesResp
  \/ FetchEntriesResp
  \/ ViewDashboard
  \/ HandleSelectProject
  \/ HandleBack
  \/ OpenCreateProject
  \/ CloseProjectModal
  \/ TypeProject
  \/ SubmitNewProject
  \/ InsertProjectResp
  \/ StoreOk
  \/ StoreFail

SpecVisitor == Init /\ [][NextVisitor]_vars

(***************************************************************************)
(* Any visitor: the base views, the category filter and both modals; the   *)
(* store answers every request.                                            *)
(***************************************************************************)
NextViews ==
  \/ InitSession
  \/ AuthSignedOut
  \/ LoadSharedResp
  \/ FetchProjectsResp
  \/ FetchAllEntriesResp
  \/ FetchEntriesResp
  \/ FetchPublicResp
  \/ ViewDashboard
  \/ ViewPublic
  \/ HandleSelectProject
  \/ HandleBack
  \/ SetFilterCategory
  \/ OpenCreateProject
  \/ CloseProjectModal
  \/ TypeProject
  \/ SubmitNewProject
  \/ InsertProjectResp
  \/ OpenUpload
  \/ HandleEditInProject
  \/ HandleEditInPublic
  \/ CloseUpload
  \/ StoreOk

SpecViews == Init /\ [][NextViews]_vars

(***************************************************************************)
(* Session Resolver and navigation, checked under SpecNav.                 *)
(***************************************************************************)
\* C1: a sign-out that arrives while the URL has no share token empties the
\* project list and the entry list, clears the selected project and shows the
\* home view, whatever view and modal it arrives in.
C1_SignOutClearsAll ==
  [][(AuthSignedOut /\ ~IsSharedView) =>
       (/\ projects' = <<>>
        /\ entries' = <<>>
        /\ selectedProject' = None
        /\ view' = "home")]_vars

\* a signed-out tab without share token still holding the project and the
\* entries of the session that ended
C1_StaleAfterSignOut ==
  /\ user = NoUser /\ ~HasShareParam /\ view = "home"
  /\ selectedProject # None /\ entries # <<>>

\* the shared project is on screen
SharedProjectShown == IsSharedView /\ ~AuthGate /\ ProjectViewShown

\* C2: a sign-out that arrives while the URL has a share token leaves the view,
\* the selected project, the entry list and the project list as they are, sets
\* the user to null, and a shared project that was on screen stays on screen.
C2_SignOutKeepsSharedView ==
  [][(AuthSignedOut /\ IsSharedView) =>
       (/\ UNCHANGED <<view, selectedProject, entries, projects>>
        /\ user' = NoUser
        /\ SharedProjectShown => SharedProjectShown')]_vars

\* a visitor of a shared project signed in, loaded their own projects and
\* signed out again: the shared project and both lists are still there
C2_Witness ==
  /\ SharedProjectShown
  /\ user = NoUser /\ authSession = NoUser
  /\ projects # <<>> /\ entries # <<>>

\* C3: whenever the view is not 'project', no project is selected and the
\* entry list is empty, also while fetches are pending.
C3_NothingSelectedOutsideProject ==
  view # "project" => (selectedProject = None /\ entries = <<>>)

\* C4: while the URL has a share token, no control that creates a project or
\* an entry, deletes a project or an entry, or copies the share link takes a
\* click, whatever the entry list holds and also before the shared project
\* has loaded.
C4_SharedViewIsReadOnly ==
  IsSharedView =>
    /\ ~CanOpenCreateProject
    /\ ~CanOpenUpload
    /\ ~CanCopyShareLink
    /\ ~(CanDeleteProject /\ projects # <<>>)
    /\ \A i \in DOMAIN entries : ~CanDeleteEntry(entries[i])

(***************************************************************************)
(* Entry authorship, checked under SpecHandover.                           *)
(***************************************************************************)
\* C5: every update or delete request for an entry is issued while a user is
\* signed in, and that user is the entry's author.
C5_OnlyAuthorMutatesEntry ==
  \A m \in BagToSet(net) :
    m.op \in {"updateEntry", "deleteEntry"} =>
      (m.issuer # NoUser /\ m.issuer = m.author)

(***************************************************************************)
(* Share ids and project creation, checked under SpecProject.              *)
(***************************************************************************)
\* C6: a share_id, once a project has one, never changes: not the stored one,
\* not the one in the local project list, not the one of the selected project.
C6_ShareIdNeverChanges ==
  [][/\ \A p \in dbProjects : \A q \in dbProjects' :
          (p.id = q.id /\ p.share_id # NullShare) => q.share_id = p.share_id
     /\ \A i \in DOMAIN projects : \A j \in DOMAIN projects' :
          (projects[i].id = projects'[j].id /\ projects[i].share_id # NullShare)
            => projects'[j].share_id = projects[i].share_id
     /\ (selectedProject # None /\ selectedProject' # None
         /\ selectedProject[1].id = selectedProject'[1].id
         /\ selectedProject[1].share_id # NullShare)
            => selectedProject'[1].share_id = selectedProject[1].share_id]_vars

\* C7: the project that handleCreateProject puts into the local list carries
\* the share_id that was sent with the insert, which is not null, and is the
\* selected project, shown in the project view, right after.
C7_CreatedProjectIsShared ==
  [][\A m \in Arrived("insertProject") :
       (InsertProjectRespOf(m) /\ projects' # projects) =>
         /\ Len(projects') = Len(projects) + 1
         /\ Tail(projects') = projects
         /\ Head(projects').share_id = m.row.share_id
         /\ Head(projects').share_id # NullShare
         /\ selectedProject' = Some(Head(projects'))
         /\ view' = "project"]_vars

\* a project created in this session heads the list and is selected
C7_Witness ==
  /\ projects # <<>>
  /\ Head(projects).id \notin {SeedProject.id, LegacyProject.id}
  /\ Head(projects).share_id # NullShare
  /\ selectedProject = Some(Head(projects))
  /\ view = "project"

(***************************************************************************)
(* The rows handleUpload sends.                                            *)
(***************************************************************************)
EntrySaves == {m \in BagToSet(net) : m.op \in {"insertEntry", "updateEntry"}}

\* C8 (under SpecForm): every entry row sent has a known type; a text row has
\* no url, an image or audio row has one; and a new image or audio row was
\* saved with a file selected.
C8_RowUrlFitsType ==
  \A m \in EntrySaves :
    /\ m.row.type \in {"text", "image", "audio"}
    /\ m.row.type = "text" => m.row.url = NoUrl
    /\ m.row.type # "text" => (m.row.url # NoUrl /\ m.row.url.scheme = "https")
    /\ (m.op = "insertEntry" /\ m.row.type # "text") => m.c.file # NoFile

\* a new media row on its way: its file was uploaded first
C8_Witness ==
  \E m \in EntrySaves :
    /\ m.op = "insertEntry" /\ m.row.type \in {"image", "audio"}
    /\ m.c.file # NoFile
    /\ m.row.url.scheme = "https"

\* C9 (under SpecEdit): an update sent for an edited entry addresses that
\* entry, carries its timestamp and project_id and, when no new file was
\* chosen, its url, also when the preview was cleared before saving.
C9_EditKeepsTimestampProjectUrl ==
  \A m \in EntrySaves :
    m.op = "updateEntry" =>
      /\ m.id = m.c.editingEntry[1].id
      /\ m.row.timestamp = m.c.editingEntry[1].timestamp
      /\ m.row.project_id = m.c.editingEntry[1].project_id
      /\ m.c.file = NoFile => m.row.url = m.c.editingEntry[1].url

\* a media entry saved from the edit modal after its preview was cleared
C9_Witness ==
  \E m \in EntrySaves :
    /\ m.op = "updateEntry"
    /\ m.c.file = NoFile /\ m.c.previewUrl = NoUrl
    /\ m.c.editingEntry[1].url # NoUrl
    /\ m.row.url = m.c.editingEntry[1].url

(***************************************************************************)
(* Failed mutations, checked under SpecOutage.                             *)
(***************************************************************************)
\* the response the handler treats as a failure: an error, or an entry save
\* that returned no row
FailedMutation(m) ==
  /\ m.phase = "done"
  /\ m.op \in DbWrites \cup {"storageUpload"}
  /\ (m.err \/ (m.op \in {"insertEntry", "updateEntry"} /\ m.data = <<>>))

\* the handler's continuation takes the response m
Delivered(m) ==
  CASE m.op = "insertProject" -> InsertProjectRespOf(m)
    [] m.op = "updateProject" -> UpdateProjectRespOf(m)
    [] m.op = "deleteProject" -> DeleteProjectRespOf(m)
    [] m.op = "updateShare" -> UpdateShareRespOf(m)
    [] m.op = "storageUpload" -> StorageUploadRespOf(m)
    [] m.op \in {"insertEntry", "updateEntry"} -> SaveResp(m)
    [] m.op = "deleteEntry" -> DeleteEntryRespOf(m)
    [] OTHER -> FALSE

\* C10: when a create, update or delete of a project or an entry, or a file
\* upload, fails, the handler shows a message, changes none of the local
\* lists nor the selected project, and leaves both modals and their forms as
\* they are.
C10_FailureChangesNothing ==
  [][\A m \in BagToSet(net) :
       (FailedMutation(m) /\ Delivered(m)) =>
         /\ alertMsg' # "none"
         /\ UNCHANGED <<projects, entries, publicEntries, allEntries, selectedProject>>
         /\ UNCHANGED <<projFormVars, formVars>>]_vars

\* the file went up, the row was refused: the message is on screen and the
\* entry modal still holds the file and the notes
C10_Witness ==
  /\ alertMsg = "saveFailed"
  /\ UploadModalShown /\ file # NoFile /\ previewUrl # NoUrl
  /\ storage # {FilePath("image", 100)}
  /\ ~uploading

(***************************************************************************)
(* What a failed save leaves behind, checked under SpecForm.               *)
(***************************************************************************)
\* the object a save attempt put into the storage bucket
UploadedBy(m) ==
  IF m.c.uploadType # "text" /\ m.c.file # NoFile
  THEN {[dir |-> m.row.url.dir, n |-> m.row.url.n]} ELSE {}

\* C11: when the storage upload or the insert or update of the row fails,
\* that save attempt leaves no entry row and no object in the storage bucket.
C11_FailedSaveLeavesNothing ==
  [][/\ \A m \in Arrived("storageUpload") :
          (StorageUploadRespOf(m) /\ m.err) =>
            /\ m.path \notin storage'
            /\ \A e \in dbEntries' : e.url # PublicUrl(m.path)
     /\ \A m \in EntrySaves :
          (m.phase = "done" /\ SaveResp(m) /\ SaveFailed(m)) =>
            /\ UploadedBy(m) \cap storage' = {}
            /\ \A e \in dbEntries' : \A p \in UploadedBy(m) : e.url # PublicUrl(p)]_vars

\* the save was refused and reported, and the file it uploaded is in the
\* bucket with no entry row referring to it
C11_OrphanObject ==
  /\ alertMsg = "saveFailed" /\ net = EmptyBag
  /\ \E p \in storage : \A e \in dbEntries : e.url # PublicUrl(p)

(***************************************************************************)
(* Preview object URLs, checked under SpecForm.                            *)
(***************************************************************************)
\* C12: every object URL that handleFileChange created and that was not
\* revoked is the one held as the preview: saving, cancelling the entry
\* modal, clearing the preview and switching tabs leave none behind.
C12_NoLeakedPreview ==
  \A b \in blobs : previewUrl = BlobUrl(b)

\* the entry modal was cancelled and the object URL of its preview lives on
C12_LeakAfterCancel ==
  /\ ~showUpload /\ previewUrl = NoUrl /\ file = NoFile
  /\ blobs # {}

(***************************************************************************)
(* Startup, checked under SpecNav.                                         *)
(***************************************************************************)
\* C13: when the share token of the page URL resolves to no project, the
\* alert is shown and the token is removed from the URL; with a session the
\* user's projects are then fetched, without one the authentication view is
\* shown and nothing is fetched.
C13_BadTokenFallsBack ==
  [][\A m \in Arrived("loadShared") :
       (LoadSharedRespOf(m) /\ (m.err \/ m.data = <<>>)) =>
         /\ alertMsg' = "invalidShareLink"
         /\ url' = NoParam
         /\ IF user # NoUser
              THEN \E r \in BagToSet(net') : r.op = "fetchProjects" /\ r.cu = user
              ELSE AuthGate' /\ net' = Take(m)]_vars

\* startup is over for a signed-in user who came with a bad token: the token
\* is gone, the alert was shown, and no project was fetched or is on its way
C13_NoFallback ==
  /\ initPc = "done" /\ user # NoUser /\ authSession = user
  /\ url = NoParam /\ alertMsg = "invalidShareLink"
  /\ projects = <<>> /\ net = EmptyBag /\ ~loading

Once(seq, row) ==
  /\ \E i \in DOMAIN seq : seq[i] = row
  /\ Cardinality({i \in DOMAIN seq : seq[i].id = row.id}) = 1

\* C15: when handleUpload has merged the row that a successful insert or
\* update returned, the entry list of the selected project, if the row
\* belongs to it, holds the row exactly once, and so does the public feed
\* list if the row is public.
C15_SavedRowOnceInEachList ==
  [][\A m \in EntrySaves :
       (m.phase = "done" /\ SaveResp(m) /\ ~SaveFailed(m)) =>
         /\ (selectedProject # None /\ m.data[1].project_id = selectedProject[1].id)
              => Once(entries', m.data[1])
         /\ m.data[1].is_public => Once(publicEntries', m.data[1])]_vars

\* the entry list shows the created entry twice
C15_DuplicateEntry ==
  /\ ProjectViewShown /\ ~showUpload
  /\ \E i, j \in DOMAIN entries : i # j /\ entries[i] = entries[j]

(***************************************************************************)
(* The public flag and the public feed, checked under SpecPublic.          *)
(***************************************************************************)
Ids(seq) == {seq[i].id : i \in DOMAIN seq}
PublicIds(rows) == {e.id : e \in {x \in rows : x.is_public}}

\* C16: an edit stores the public flag the form held when it was saved; a
\* public feed select that the store answers afterwards returns the entries
\* whose stored flag is true and no other; and when that answer is delivered
\* the public feed list holds an entry exactly if its stored flag is true.
C16_PublicFlagDecidesFeed ==
  [][/\ \A m \in Sent :
          (m.op = "updateEntry" /\ StoreOkOf(m)) =>
            \A e \in dbEntries' : e.id = m.id => e.is_public = m.c.isPublic
     /\ \A m \in Sent :
          (m.op = "fetchPublic" /\ StoreOkOf(m)) =>
            \E r \in Arrived("fetchPublic")' :
              ~r.err /\ Ids(r.data) = PublicIds(dbEntries)
     /\ \A m \in Arrived("fetchPublic") :
          (FetchPublicRespOf(m) /\ ~m.err /\ Ids(m.data) = PublicIds(dbEntries)) =>
            \A e \in dbEntries : Has(publicEntries', e.id) <=> e.is_public]_vars

\* both seeded entries were edited, the public one made private and the
\* private one public, and the feed fetched since shows exactly the latter
C16_Witness ==
  /\ view = "public" /\ net = EmptyBag /\ ~publicLoading /\ ~showUpload
  /\ \E e \in dbEntries : e.id = SeedText.id /\ ~e.is_public
  /\ \E e \in dbEntries : e.id = SeedImage.id /\ e.is_public
  /\ Ids(publicEntries) = {SeedImage.id}

(***************************************************************************)
(* Deleting, checked under SpecDelete.                                     *)
(***************************************************************************)
\* the store has carried out the delete of id_ and said so
Deleted(op_, id_) == \E m \in Arrived(op_) : ~m.err /\ m.id = id_

C19_ShareParamRemoved ==
  [][/\ (HandleBack /\ IsSharedView) => url' = NoParam
     /\ \A m \in Arrived("insertProject") :
          (InsertProjectRespOf(m) /\ ~m.err /\ m.data # <<>> /\ IsSharedView)
            => url' = NoParam]_vars

\* the project just created is on screen and the URL still has the share
\* token the page was opened with
C19_TokenAfterCreate ==
  /\ IsSharedView /\ ProjectViewShown
  /\ projects # <<>> /\ selectedProject = Some(Head(projects))
  /\ selectedProject[1].id \notin {SeedProject.id, LegacyProject.id}
  /\ selectedProject[1].share_id # url

(***************************************************************************)
(* Mutations in flight, checked under SpecOutage.                          *)
(***************************************************************************)
\* the project or entry a mutating request is aimed at
Target(m) ==
  CASE m.op \in {"updateProject", "deleteProject"} -> <<"project", m.id>>
    [] m.op = "updateShare" -> <<"project", m.projectId>>
    [] m.op \in {"updateEntry", "deleteEntry"} -> <<"entry", m.id>>
    [] OTHER -> <<"none", 0>>

\* requests the handler is still waiting for, aimed at a project or an entry
Mutating == {m \in BagToSet(net) : Target(m)[1] # "none"}

\* C20: no two update, delete or share-id requests aimed at the same project
\* or the same entry are in flight at the same time.
C20_OneMutationPerEntity ==
  \A m1, m2 \in Mutating :
    Target(m1) = Target(m2) => (m1 = m2 /\ CopiesIn(m1, net) = 1)

\* two deletes of the same entry are in flight
C20_TwoDeletesInFlight ==
  \E m \in Mutating : m.op = "deleteEntry" /\ CopiesIn(m, net) = 2

(***************************************************************************)
(* Failures during startup, checked under SpecNav.                         *)
(***************************************************************************)
\* nothing is loaded: no project is selected and the lists are empty, as for
\* a visitor without session and link
EmptyState ==
  /\ selectedProject = None
  /\ projects = <<>> /\ entries = <<>> /\ allEntries = <<>>

\* the requests init() waits for: the shared project and its entries, or the
\* projects of the session's user
StartupRequest(m) ==
  \/ m.op = "loadShared"
  \/ m.op = "fetchEntries" /\ m.then = "shared"
  \/ m.op = "fetchProjects" /\ m.then = "init"

\* the continuation of init() takes the response m
StartupDelivered(m) ==
  CASE m.op = "loadShared" -> LoadSharedRespOf(m)
    [] m.op = "fetchEntries" -> FetchEntriesRespOf(m)
    [] m.op = "fetchProjects" -> FetchProjectsRespOf(m)
    [] OTHER -> FALSE

SucceededMutation(m) ==
  /\ m.phase = "done" /\ ~m.err
  /\ m.op \in {"insertProject", "updateProject", "updateShare", "deleteProject",
              "deleteEntry"}
  /\ m.op \in {"insertProject", "updateProject"} => m.data # <<>>

\* the local list holds what the store answered
MergedLocally(m) ==
  CASE m.op = "insertProject" -> Has(projects, m.data[1].id)
    [] m.op = "updateProject" -> Has(projects, m.id)
    [] m.op = "updateShare" ->
         \A i \in DOMAIN projects :
           projects[i].id = m.projectId => projects[i].share_id = m.newShareId
    [] m.op = "deleteProject" -> ~Has(projects, m.id)
    [] m.op = "deleteEntry" -> ~Has(entries, m.id)
    [] OTHER -> TRUE

\* the selects that load the list the mutation changed
RefetchOps(m) ==
  IF m.op = "deleteEntry" THEN {"fetchEntries", "fetchPublic"} ELSE {"fetchProjects"}

\* C22: when a create, update or delete of a project, or a delete of an
\* entry, has succeeded, the handler updates the local list from the answer
\* and issues a select that loads that list again.
C22_MergeThenRefetch ==
  [][\A m \in BagToSet(net) :
       (SucceededMutation(m) /\ Delivered(m)) =>
         /\ MergedLocally(m)'
         /\ \E r \in BagToSet(net') :
              /\ r.phase = "sent" /\ r.op \in RefetchOps(m)
              /\ CopiesIn(r, net') > CopiesIn(r, net)]_vars

\* the created project is in the local list and selected, its insert is
\* answered, and nothing is in flight that loads the project list again
C22_CreatedWithoutRefetch ==
  /\ selectedProject # None /\ view = "project"
  /\ selectedProject[1].id \notin {SeedProject.id, LegacyProject.id}
  /\ Has(projects, selectedProject[1].id)
  /\ \A r \in BagToSet(net) : r.op \notin {"fetchProjects", "insertProject"}

(***************************************************************************)
(* The share link of a project, checked under SpecProject.                 *)
(***************************************************************************)
\* C23: handleCopyShareLink sends an update with a generated share_id only
\* when the selected project has none; the clipboard changes only to the
\* share_id the selected project already had, or to a generated one when
\* the store has accepted its update; and when the update has failed the clipboard, the local project list and the
\* selected project are left as they were.
C23_ShareLinkCopiedOncePersisted ==
  /\ [][(\E r \in BagToSet(net') :
           r.op = "updateShare" /\ r.phase = "sent" /\ CopiesIn(r, net') > CopiesIn(r, net))
         => (selectedProject # None /\ selectedProject[1].share_id = NullShare)]_vars
  /\ [][clipboard' # clipboard =>
           \/ /\ selectedProject # None
              /\ selectedProject[1].share_id # NullShare
              /\ clipboard' = selectedProject[1].share_id
           \/ \E m \in Arrived("updateShare") :
                /\ ~m.err /\ UpdateShareRespOf(m)
                /\ clipboard' = m.newShareId]_vars
  /\ [][\A m \in Arrived("updateShare") :
           (m.err /\ UpdateShareRespOf(m)) =>
             UNCHANGED <<clipboard, projects, selectedProject>>]_vars

\* the link of the project created without share_id was generated, stored
\* and copied
C23_Witness ==
  /\ clipboard \in 1..MaxUuid
  /\ \E p \in dbProjects : p.id = LegacyProject.id /\ p.share_id = clipboard
  /\ selectedProject # None /\ selectedProject[1].share_id = clipboard

(***************************************************************************)
(* The category filter and the base view, checked under SpecViews.         *)
(***************************************************************************)
\* the insert of a project has succeeded and handleCreateProject selects
\* the project it created
CreatedProjectSelected ==
  \E m \in Arrived("insertProject") :
    ~m.err /\ m.data # <<>> /\ InsertProjectRespOf(m)

\* C24: when a project is selected that was never viewed before, the one
\* handleCreateProject has just created, the category filter becomes "all";
\* and a step that opens or closes a modal and selects no project leaves
\* the category filter as it is.
C24_FilterResetOnOtherProject ==
  /\ [][CreatedProjectSelected => filterCategory' = "all"]_vars
  /\ [][((showUpload' # showUpload \/ showCreateProject' # showCreateProject)
          /\ selectedProject' = selectedProject)
         => filterCategory' = filterCategory]_vars

\* the project just created is shown under the category chosen for the
\* project viewed before it
C24_NewProjectFiltered ==
  /\ view = "project" /\ selectedProject # None
  /\ selectedProject[1].id \notin {SeedProject.id, LegacyProject.id}
  /\ filterCategory # "all"
  /\ \E m \in Sent : m.op = "fetchEntries" /\ m.projectId = selectedProject[1].id

\* the steps of the user that lead to another view
NavigationStep == ViewDashboard \/ ViewPublic \/ HandleSelectProject \/ HandleBack

\* the steps of the session resolver that lead to another view: the
\* sign-out, and the end of handleLoadSharedProject
ResolverStep ==
  \/ AuthSignedOut
  \/ \E m \in Arrived("fetchEntries") : m.then = "shared" /\ FetchEntriesRespOf(m)

\* handleBack leads from the project view to the dashboard and from the
\* public feed to home
BackLeadsUp ==
  [][HandleBack => /\ view = "project" => view' = "dashboard"
                   /\ view = "public" => view' = "home"]_vars

\* a step that opens a modal leaves the view
OpeningKeepsView ==
  [][((showUpload' /\ ~showUpload) \/ (showCreateProject' /\ ~showCreateProject))
       => view' = view]_vars

\* C25 as stated: handleBack leads from the project view to the dashboard
\* and from the public feed to home; the view changes only in a step of the
\* user that views the projects or the public feed, selects a project or
\* goes back, or in a step of the session resolver; and a step that opens a
\* modal leaves the view.
C25_ViewChangesByNavigation ==
  /\ BackLeadsUp
  /\ [][view' # view => (NavigationStep \/ ResolverStep)]_vars
  /\ OpeningKeepsView

\* C25, amended: as above, and the view also changes when the insert of a
\* project has succeeded: handleCreateProject closes the project modal and
\* shows the project it created.
C25_ViewChangesByNavigationOrCreate ==
  /\ BackLeadsUp
  /\ [][view' # view => (NavigationStep \/ ResolverStep \/ CreatedProjectSelected)]_vars
  /\ OpeningKeepsView

\* the project created from the home view is shown: nobody selected it and
\* nobody viewed the dashboard
C25_Witness ==
  /\ view = "project" /\ selectedProject # None
  /\ selectedProject[1].id \notin {SeedProject.id, LegacyProject.id}
  /\ ~showCreateProject /\ ~IsSharedView
  /\ filterCategory = "all"

(***************************************************************************)
(* Entry selects answered late, checked under SpecNav.                     *)
(***************************************************************************)
\* C26: whenever the project view is shown, every entry of the local entry
\* list belongs to the selected project, in whatever order the answers to
\* the entry selects arrive.
C26_EntriesOfSelectedProject ==
  ProjectViewShown =>
    \A i \in DOMAIN entries : entries[i].project_id = selectedProject[1].id

\* the project without entries is shown with the entries of the project
\* selected before it, and no request is left to replace them
C26_EntriesOfOtherProject ==
  /\ ProjectViewShown /\ net = EmptyBag
  /\ selectedProject[1].id = LegacyProject.id
  /\ \E i \in DOMAIN entries : entries[i].project_id = SeedProject.id

(***************************************************************************)
(* Duplicates in the local lists, checked under SpecSave.                  *)
(***************************************************************************)
NoDuplicateIds(seq) == \A i, j \in DOMAIN seq : seq[i].id = seq[j].id => i = j

\* C27: the local entry list and the local public feed list never hold two
\* elements with the same id, however a pending select of the list and the
\* completion of an insert interleave.
C27_NoDuplicateIds == NoDuplicateIds(entries) /\ NoDuplicateIds(publicEntries)

\* the entry list holds the created entry twice and no select is left that
\* would replace the list
C27_DuplicateStays ==
  /\ ProjectViewShown /\ net = EmptyBag
  /\ ~NoDuplicateIds(entries)

(***************************************************************************)
(* The public flag of a new entry, checked under SpecForm, where the       *)
(* checkbox of the flag is never clicked.                                  *)
(***************************************************************************)
\* C28: when the entry modal is opened for a new entry the public flag of
\* the form is false; and, the checkbox being left alone, no insert of a
\* new entry is sent with is_public = true.
C28_NewEntryStartsPrivate ==
  /\ [][OpenUpload => ~isPublic']_vars
  /\ [](\A m \in EntrySaves : m.op = "insertEntry" => ~m.row.is_public)

\* the insert of a new entry was sent as public although the checkbox was
\* never clicked
C28_PublicWithoutConsent ==
  \E m \in EntrySaves :
    /\ m.op = "insertEntry" /\ m.row.is_public
    /\ m.c.editingEntry = None

(***************************************************************************)
(* The project list after a sign-out, checked under SpecHandover, where    *)
(* the URL has no share parameter.                                         *)
(***************************************************************************)
\* C29: while nobody is signed in and the URL has no share parameter, the
\* local project list, emptied by the sign-out, stays empty, also when the
\* answer to a select of the projects sent before the sign-out arrives.
C29_ProjectsStayEmptySignedOut ==
  [][(user = NoUser /\ user' = NoUser /\ ~IsSharedView /\ projects = <<>>)
       => projects' = <<>>]_vars

\* nobody is signed in, the home view is shown, and the project list holds
\* the projects of the user who signed out
C29_ProjectsAfterSignOut ==
  /\ initPc = "done" /\ user = NoUser /\ authSession = NoUser /\ ~IsSharedView
  /\ view = "home" /\ net = EmptyBag
  /\ projects # <<>>

(***************************************************************************)
(* A save answered after its modal was closed, checked under SpecEdit.     *)
(***************************************************************************)
\* the entry modal is open for another entry than the one save m was sent
\* for: the modal of m was closed and the modal opened again
OtherModalSession(m) == showUpload /\ editingEntry # None /\ editingEntry # m.c.editingEntry

\* C30: when the answer to a successful save arrives while the entry modal
\* is open for another entry, the modal stays open and its edit target and
\* form contents stay as they are.
C30_SaveEndsOwnSessionOnly ==
  [][\A m \in EntrySaves :
       (m.phase = "done" /\ ~SaveFailed(m) /\ OtherModalSession(m) /\ SaveResp(m))
         => UNCHANGED <<showUpload, editingEntry, formVars>>]_vars

\* the save of one entry has succeeded and its answer is about to arrive
\* while the modal is open for another entry
C30_AnswerForClosedModal ==
  \E m \in EntrySaves :
    /\ m.phase = "done" /\ ~SaveFailed(m)
    /\ OtherModalSession(m)
    /\ m.c.editingEntry # None

=============================================================================
